---- MODULE Spec2Model ----
(***************************************************************************)
(* Multi-scope sliding-window rate limiter of gamdl_telegram               *)
(* (src/gamdl_telegram/rate_limiter.py, class RateLimiter).                *)
(*                                                                         *)
(* Time is counted in whole clock readings: time.time() is modelled by the *)
(* variable now, which only moves forward.  A bucket map (Dict[float,int]) *)
(* is a function from the timestamps it holds to their counts.             *)
(***************************************************************************)
EXTENDS Integers, Sequences, FiniteSets, TLC

\* ---------------------------------------------------------------- bounds
MaxTime == 2        \* the clock runs over 0..MaxTime
MaxLimit == 2       \* configured limits are drawn from 0..MaxLimit
MaxWindow == 2      \* configured windows are drawn from 1..MaxWindow
MaxAttempts == 3    \* attempts recorded for one key in one burst
MaxThreads == 2     \* threads calling the limiter concurrently

Times == 0..MaxTime
Limits == 0..MaxLimit
Windows == 1..MaxWindow

\* Python's None, for an absent user_id / ip_address.
None == "None"
Users == {"u1", "u2"}
Ips == {"ip1", "ip2"}
Threads == 1..MaxThreads
UserArgs == Users \cup {None}
ThreadUserArgs == {"u1", None}
IpArgs == {"ip1", None}
AnyIpArgs == Ips \cup {None}

VARIABLES
    global_limit, global_window, user_limit, user_window, ip_limit, ip_window,
    global_requests, user_requests, ip_requests,
    global_lock, user_lock, ip_lock,
    frame,
    now,
    last, prev,
    burst,
    fn_limit, fn_window, fn_requests, fn_lock, fn_burst,
    other_requests, other_lock,
    decided, advice

config == <<global_limit, global_window, user_limit, user_window,
            ip_limit, ip_window>>
counters == <<global_requests, user_requests, ip_requests>>
locks == <<global_lock, user_lock, ip_lock>>
\* rate_limit(limit, window) applied to a function: the arguments and the
\* closure variables requests and lock of decorator (lines 161-173), and the
\* attempts made on the decorated function (as burst).
\* other_requests and other_lock are the closure variables of a second
\* function decorated with the same arguments.
decorated == <<fn_limit, fn_window, fn_requests, fn_lock, fn_burst,
               other_requests, other_lock>>
\* What an observer of the calls has noted: decided[k][t], the number of
\* requests scope key k admitted while the clock stood at t, and advice, the
\* last denied call, the wait reported for it and the outcome of its retry.
history == <<decided, advice>>
vars == <<config, counters, locks, frame, now, last, prev, burst, decorated,
          history>>

\* ------------------------------------------------------- bucket maps
EmptyMap == [ts \in {} |-> 0]

RECURSIVE SumOver(_, _)
SumOver(request_dict, keys) ==
    IF keys = {} THEN 0
    ELSE LET ts == CHOOSE x \in keys : TRUE
         IN  request_dict[ts] + SumOver(request_dict, keys \ {ts})

\* sum(request_dict.values())
Sum(request_dict) == SumOver(request_dict, DOMAIN request_dict)

\* _cleanup_expired_requests: keep the buckets with current_time - timestamp <= window
KeepStrict(window, current_time, timestamp) == current_time - timestamp < window
KeepLate(window, current_time, timestamp) == current_time - timestamp <= window + 1
Keep(window, current_time, timestamp) == current_time - timestamp <= window

cleanup_nothing(request_dict, window, current_time) == request_dict
cleanup_expired_requests(request_dict, window, current_time) ==
    [ts \in {t \in DOMAIN request_dict : Keep(window, current_time, t)}
        |-> request_dict[ts]]

\* d.get(current_time, 0)
Get(request_dict, current_time) ==
    IF current_time \in DOMAIN request_dict THEN request_dict[current_time] ELSE 0

\* d[current_time] = d.get(current_time, 0) + 1
Increment(request_dict, current_time) ==
    [ts \in DOMAIN request_dict \cup {current_time} |->
        IF ts = current_time THEN Get(request_dict, current_time) + 1
        ELSE request_dict[ts]]

\* the limit test of every scope: sum(...) >= limit
OverLimitStrict(request_dict, limit) == Sum(request_dict) > limit
OverLimit(request_dict, limit) == Sum(request_dict) >= limit

\* if key not in requests: requests[key] = {}
EnsureKeyForgotten(requests, key) == requests
EnsureKey(requests, key) ==
    IF key \in DOMAIN requests THEN requests ELSE (key :> EmptyMap) @@ requests

\* ------------------------------------------------------------ scopes
\* One scope's admission attempt gives [ok, requests]: whether the scope
\* admitted, and the scope's stored state after the attempt.

\* lines 99-111: the global scope commits the sweep, then denies or increments.
GlobalScopeUncounted(requests, current_time) ==
    LET cleaned == cleanup_expired_requests(requests, global_window, current_time)
    IN  [ok |-> ~OverLimit(cleaned, global_limit), requests |-> cleaned]
GlobalScope(requests, current_time) ==
    LET cleaned == cleanup_expired_requests(requests, global_window, current_time)
    IN  IF OverLimit(cleaned, global_limit)
        THEN [ok |-> FALSE, requests |-> cleaned]
        ELSE [ok |-> TRUE, requests |-> Increment(cleaned, current_time)]

\* lines 115-133 and 137-155: a keyed scope creates the key, sweeps a local
\* copy, and stores the copy back only when it admits.
KeyScopeCountsDenied(requests, key, limit, window, current_time) ==
    LET tracked == EnsureKey(requests, key)
        reqs == cleanup_expired_requests(tracked[key], window, current_time)
    IN  [ok |-> ~OverLimit(reqs, limit),
         requests |-> [tracked EXCEPT ![key] = Increment(reqs, current_time)]]
KeyScopeOneKey(requests, key, limit, window, current_time) ==
    LET tracked == EnsureKey(requests, key)
        reqs == cleanup_expired_requests(tracked[key], window, current_time)
    IN  IF OverLimit(reqs, limit)
        THEN [ok |-> FALSE, requests |-> (key :> tracked[key])]
        ELSE [ok |-> TRUE, requests |-> (key :> Increment(reqs, current_time))]
KeyScopeKeyOnAdmit(requests, key, limit, window, current_time) ==
    LET tracked == EnsureKey(requests, key)
        reqs == cleanup_expired_requests(tracked[key], window, current_time)
    IN  IF OverLimit(reqs, limit)
        THEN [ok |-> FALSE, requests |-> requests]
        ELSE [ok |-> TRUE,
              requests |-> [tracked EXCEPT ![key] = Increment(reqs, current_time)]]
KeyScope(requests, key, limit, window, current_time) ==
    LET tracked == EnsureKey(requests, key)
        reqs == cleanup_expired_requests(tracked[key], window, current_time)
    IN  IF OverLimit(reqs, limit)
        THEN [ok |-> FALSE, requests |-> tracked]
        ELSE [ok |-> TRUE,
              requests |-> [tracked EXCEPT ![key] = Increment(reqs, current_time)]]

UserScopeUncounted(key, current_time) ==
    [ok |-> KeyScope(user_requests, key, user_limit, user_window, current_time).ok,
     requests |-> EnsureKey(user_requests, key)]
UserScope(key, current_time) ==
    KeyScope(user_requests, key, user_limit, user_window, current_time)

IpScope(key, current_time) ==
    KeyScope(ip_requests, key, ip_limit, ip_window, current_time)

\* ------------------------------------------------- observation (ghost)
\* last: the call that has just returned at the clock reading now, with its
\* arguments and its result.  g, u, i are the verdicts of the three scopes:
\* "admit", "deny", or "skip" when the scope was not consulted.  prev holds
\* the counters as they were when that call was made.
NoCall == [op |-> "none", user_id |-> None, ip_address |-> None,
           allowed |-> FALSE, wait |-> 0, g |-> "skip", u |-> "skip", i |-> "skip",
           args |-> None, result |-> None, raised |-> None, executed |-> 0,
           found |-> EmptyMap]

Verdict(ok) == IF ok THEN "admit" ELSE "deny"

\* burst[k]: the attempts made on scope key k since its counter was last
\* seen empty: the earliest and latest clock readings used, the number of
\* attempts, and how many of them the scope admitted; denied tells whether
\* the scope has ever denied the key.
ScopeKeys == {"global"} \cup Users \cup Ips
NoBurst == [lo |-> 0, hi |-> 0, n |-> 0, ok |-> 0, denied |-> FALSE]

Min(a, b) == IF a <= b THEN a ELSE b
Max(a, b) == IF a >= b THEN a ELSE b

\* No stored bucket of the key lies within window of the reading t.
CounterEmpty(request_dict, window, t) ==
    \A ts \in DOMAIN request_dict : t - ts > window

Stored(requests, key) ==
    IF key \in DOMAIN requests THEN requests[key] ELSE EmptyMap

Attempt(b, empty, t, ok) ==
    IF b.n = 0 \/ empty
    THEN [lo |-> t, hi |-> t, n |-> 1, ok |-> IF ok THEN 1 ELSE 0,
          denied |-> b.denied \/ ~ok]
    ELSE [lo |-> Min(b.lo, t), hi |-> Max(b.hi, t), n |-> b.n + 1,
          ok |-> b.ok + (IF ok THEN 1 ELSE 0), denied |-> b.denied \/ ~ok]

\* A further attempt on the key may be recorded.
Room(b, empty) == b.n < MaxAttempts \/ empty

\* ----------------------------------------------------------- actions
TypeOK ==
    /\ now \in Times
    /\ DOMAIN global_requests \subseteq Times
    /\ DOMAIN user_requests \subseteq Users
    /\ DOMAIN ip_requests \subseteq Ips

\* __init__, lines 47-62.  The six parameters are the caller's: one scope is
\* given any limit and window, the other two a wide limit and the longest
\* window.
WideLimit == MaxLimit + 1
Configured ==
    \E scope \in {"global", "user", "ip"}, limit \in Limits, window \in Windows :
        /\ global_limit = (IF scope = "global" THEN limit ELSE WideLimit)
        /\ global_window = (IF scope = "global" THEN window ELSE MaxWindow)
        /\ user_limit = (IF scope = "user" THEN limit ELSE WideLimit)
        /\ user_window = (IF scope = "user" THEN window ELSE MaxWindow)
        /\ ip_limit = (IF scope = "ip" THEN limit ELSE WideLimit)
        /\ ip_window = (IF scope = "ip" THEN window ELSE MaxWindow)

\* threading.Lock: the thread holding it, or Unlocked.
Unlocked == 0

\* frame[t]: thread t's position in the call it is making, its local
\* variables, and how the call ends: ret / result, or the exception raised.
Idle == [op |-> "none", pc |-> "idle", current_time |-> 0,
         user_id |-> None, ip_address |-> None,
         reqs |-> EmptyMap, fresh |-> FALSE, max_wait |-> 0, ret |-> FALSE,
         args |-> None, result |-> None, raised |-> None, depth |-> 0]

\* Nothing observed yet.
NoneDecided == [k \in ScopeKeys |-> [t \in Times |-> 0]]
NoAdvice == [stage |-> "none", t |-> 0, user_id |-> None, ip_address |-> None,
             w |-> 0, at |-> 0, allowed |-> FALSE]

Constructed ==
    /\ global_requests = EmptyMap
    /\ user_requests = EmptyMap
    /\ ip_requests = EmptyMap
    /\ global_lock = Unlocked
    /\ user_lock = Unlocked
    /\ ip_lock = Unlocked
    /\ frame = [t \in Threads |-> Idle]
    /\ now = 0
    /\ last = NoCall
    /\ prev = <<EmptyMap, EmptyMap, EmptyMap>>
    /\ burst = [k \in ScopeKeys |-> NoBurst]
    /\ decided = NoneDecided
    /\ advice = NoAdvice

\* The decorator's default arguments (lines 161-162).
DefaultLimit == 10
DefaultWindow == 60

\* @rate_limit(limit, window), lines 171-173 and 198-199.
Decorated(limit, window) ==
    /\ fn_limit = limit
    /\ fn_window = window
    /\ fn_requests = EmptyMap
    /\ fn_lock = Unlocked
    /\ fn_burst = NoBurst
    /\ other_requests = EmptyMap
    /\ other_lock = Unlocked

Init == Configured /\ Constructed /\ Decorated(DefaultLimit, DefaultWindow)

\* time.time() moves on.
ClockStep ==
    /\ now < MaxTime
    /\ now' = now + 1
    /\ UNCHANGED <<config, history, decorated, counters, locks, frame, burst>>

Tick ==
    /\ ClockStep
    /\ last' = NoCall
    /\ prev' = counters

\* The user scope is consulted when the global scope has not returned False
\* (line 108) and a user_id is given (line 114).
AskUserAnyway(g, user_id) == user_id # None
AskUser(g, user_id) == g.ok /\ user_id # None

\* The IP scope is consulted when neither earlier scope has returned False
\* (lines 108, 129) and an ip_address is given (line 136).
AskIp(g, u, ip_address) == g.ok /\ u.ok /\ ip_address # None

\* The attempts recorded for the keys of a call stay within MaxAttempts.
HasRoom(user_id, ip_address) ==
    /\ Room(burst["global"], CounterEmpty(global_requests, global_window, now))
    /\ user_id # None =>
            Room(burst[user_id],
                 CounterEmpty(Stored(user_requests, user_id), user_window, now))
    /\ ip_address # None =>
            Room(burst[ip_address],
                 CounterEmpty(Stored(ip_requests, ip_address), ip_window, now))

\* The body of is_allowed(user_id, ip_address), lines 99-157, run without
\* interruption with the clock value current_time read at line 96.
Admission(user_id, ip_address, current_time) ==
    LET g == GlobalScope(global_requests, current_time)
        askU == AskUser(g, user_id)
        u == IF askU THEN UserScope(user_id, current_time)
             ELSE [ok |-> TRUE, requests |-> user_requests]
        askI == AskIp(g, u, ip_address)
        i == IF askI THEN IpScope(ip_address, current_time)
             ELSE [ok |-> TRUE, requests |-> ip_requests]
        gEmpty == CounterEmpty(global_requests, global_window, current_time)
        uEmpty == CounterEmpty(Stored(user_requests, user_id), user_window, current_time)
        iEmpty == CounterEmpty(Stored(ip_requests, ip_address), ip_window, current_time)
    IN  /\ global_requests' = g.requests
        /\ user_requests' = u.requests
        /\ ip_requests' = i.requests
        /\ last' = [op |-> "is_allowed", user_id |-> user_id,
                    ip_address |-> ip_address,
                    allowed |-> g.ok /\ u.ok /\ i.ok, wait |-> 0,
                    g |-> Verdict(g.ok),
                    u |-> IF askU THEN Verdict(u.ok) ELSE "skip",
                    i |-> IF askI THEN Verdict(i.ok) ELSE "skip"]
        /\ prev' = counters
        /\ burst' = [k \in ScopeKeys |->
                IF k = "global" THEN Attempt(burst[k], gEmpty, current_time, g.ok)
                ELSE IF askU /\ k = user_id
                     THEN Attempt(burst[k], uEmpty, current_time, u.ok)
                ELSE IF askI /\ k = ip_address
                     THEN Attempt(burst[k], iEmpty, current_time, i.ok)
                ELSE burst[k]]
        /\ UNCHANGED <<config, decorated, locks, frame, now>>

\* is_allowed(user_id, ip_address), lines 84-157, run without interruption.
is_allowed(user_id, ip_address) ==
    /\ Admission(user_id, ip_address, now)
    /\ UNCHANGED history

\* The wait a scope reports when it is full, were it the time left until
\* the oldest retained bucket expires.
ScopeWaitRemaining(max_wait, request_dict, limit, window, current_time) ==
    LET cleaned == cleanup_expired_requests(request_dict, window, current_time)
    IN  IF OverLimit(cleaned, limit)
        THEN Max(max_wait, window - (current_time - (CHOOSE ts \in DOMAIN cleaned : \A o \in DOMAIN cleaned : ts <= o)))
        ELSE max_wait

\* One scope's part of get_wait_time: lines 217-223, 226-233, 236-243.
ScopeWait(max_wait, request_dict, limit, window, current_time) ==
    IF OverLimit(cleanup_expired_requests(request_dict, window, current_time), limit)
    THEN Max(max_wait, window)
    ELSE max_wait

\* get_wait_time(user_id, ip_address), lines 201-245, as a function of the
\* counters it reads.
WaitTime(user_id, ip_address, current_time) ==
    LET w0 == 0
        w1 == ScopeWait(w0, global_requests, global_limit, global_window, current_time)
        w2 == IF user_id # None /\ user_id \in DOMAIN user_requests
              THEN ScopeWait(w1, user_requests[user_id], user_limit, user_window,
                             current_time)
              ELSE w1
        w3 == IF ip_address # None /\ ip_address \in DOMAIN ip_requests
              THEN ScopeWait(w2, ip_requests[ip_address], ip_limit, ip_window,
                             current_time)
              ELSE w2
    IN  w3

\* The counters after get_wait_time: it sweeps copies (lines 218, 228, 238)
\* into local variables, so the stored maps are as they were.
AfterWaitSwept(current_time) ==
    <<cleanup_expired_requests(global_requests, global_window, current_time), user_requests, ip_requests>>
AfterWait(current_time) == counters

WaitQuery(user_id, ip_address) ==
    /\ last' = [NoCall EXCEPT !.op = "get_wait_time", !.user_id = user_id,
                    !.ip_address = ip_address,
                    !.wait = WaitTime(user_id, ip_address, now)]
    /\ prev' = counters
    /\ global_requests' = AfterWait(now)[1]
    /\ user_requests' = AfterWait(now)[2]
    /\ ip_requests' = AfterWait(now)[3]
    /\ UNCHANGED <<config, decorated, locks, frame, now, burst>>

get_wait_time(user_id, ip_address) ==
    /\ WaitQuery(user_id, ip_address)
    /\ UNCHANGED history

\* ---------------------------------------------- is_allowed, by steps
\* The same code as run by concurrent threads: each action is one thread's
\* next step.  A with-block is two steps: entering it (acquire the lock,
\* sweep, test the limit, and leave at once when the scope denies), and
\* the increment that ends it.

\* `with lock:` (lines 99, 115, 137) blocks while another thread holds it.
CanAcquireAnyway(lock) == TRUE
CanAcquire(lock) == lock = Unlocked

\* Leaving the with-block by return or raise (lines 108, 129, 151, 191)
\* releases the lock.
ExitHolding(t) == t
Exit(t) == Unlocked

\* Inside the with-block the lock is held by the thread that entered it.
HoldNothing(t) == Unlocked
Hold(t) == t

At(t, pc) == frame[t].pc = pc
InFlight == Cardinality({t \in Threads : ~At(t, "idle")})

\* The call returns ret.
Returning(f, ret) == [Idle EXCEPT !.op = f.op, !.pc = "done", !.ret = ret]

\* The call ends in the exception error.
Raising(f, error) == [Idle EXCEPT !.op = f.op, !.pc = "done", !.raised = error]

\* requests[key] (lines 120, 142, 228, 238) raises KeyError for a key the
\* map does not hold.
KeyError == "KeyError"
Holds(requests, key) == key \in DOMAIN requests

\* The scope the call consults after the global one / after the user one;
\* with none left it returns True (line 157).
AfterGlobal(f) ==
    IF f.user_id # None THEN [f EXCEPT !.pc = "u_enter"]
    ELSE IF f.ip_address # None THEN [f EXCEPT !.pc = "i_enter"]
    ELSE Returning(f, TRUE)

AfterUser(f) ==
    IF f.ip_address # None THEN [f EXCEPT !.pc = "i_enter", !.reqs = EmptyMap]
    ELSE Returning(f, TRUE)

Recorded(key, empty, t, ok) ==
    [burst EXCEPT ![key] = Attempt(burst[key], empty, frame[t].current_time, ok)]

\* line 96.  Threads are interchangeable: thread t starts a call only when
\* the threads before it are busy.
Call(t, user_id, ip_address) ==
    /\ At(t, "idle")
    /\ \A t2 \in Threads : t2 < t => ~At(t2, "idle")
    /\ \/ burst["global"].n + InFlight < MaxAttempts
       \/ CounterEmpty(global_requests, global_window, now)
    /\ frame' = [frame EXCEPT ![t] =
            [Idle EXCEPT !.op = "is_allowed", !.pc = "g_enter", !.current_time = now,
                         !.user_id = user_id, !.ip_address = ip_address]]
    /\ UNCHANGED <<config, history, decorated, counters, locks, now, last, prev, burst>>

\* line 100 and line 182: the swept map is assigned to the stored one.
AssignedNothing(stored, cleaned) == stored
Assigned(stored, cleaned) == cleaned

\* lines 99-108
GlobalEnter(t) ==
    LET current_time == frame[t].current_time
        cleaned == cleanup_expired_requests(global_requests, global_window, current_time)
        empty == CounterEmpty(global_requests, global_window, current_time)
    IN  /\ At(t, "g_enter")
        /\ CanAcquire(global_lock)
        /\ global_requests' = Assigned(global_requests, cleaned)
        /\ IF OverLimit(cleaned, global_limit)
           THEN /\ frame' = [frame EXCEPT ![t] = Returning(@, FALSE)]
                /\ global_lock' = Exit(t)
                /\ burst' = Recorded("global", empty, t, FALSE)
           ELSE /\ frame' = [frame EXCEPT ![t].pc = "g_commit", ![t].fresh = empty]
                /\ global_lock' = Hold(t)
                /\ UNCHANGED burst
        /\ UNCHANGED <<config, history, decorated, user_requests, ip_requests, user_lock, ip_lock, now,
                       last, prev>>

\* line 111, and the end of the with-block
GlobalCommit(t) ==
    /\ At(t, "g_commit")
    /\ global_requests' = Increment(global_requests, frame[t].current_time)
    /\ global_lock' = Unlocked
    /\ burst' = Recorded("global", frame[t].fresh, t, TRUE)
    /\ frame' = [frame EXCEPT ![t] = AfterGlobal(@)]
    /\ UNCHANGED <<config, history, decorated, user_requests, ip_requests, user_lock, ip_lock, now,
                   last, prev>>

\* lines 115-129
UserEnter(t) ==
    LET current_time == frame[t].current_time
        user_id == frame[t].user_id
        tracked == EnsureKey(user_requests, user_id)
        user_reqs == cleanup_expired_requests(Stored(tracked, user_id), user_window, current_time)
        empty == CounterEmpty(Stored(user_requests, user_id), user_window, current_time)
    IN  /\ At(t, "u_enter")
        /\ CanAcquire(user_lock)
        /\ user_requests' = tracked
        /\ IF ~Holds(tracked, user_id)
           THEN /\ frame' = [frame EXCEPT ![t] = Raising(@, KeyError)]
                /\ user_lock' = Exit(t)
                /\ UNCHANGED burst
           ELSE IF OverLimit(user_reqs, user_limit)
           THEN /\ frame' = [frame EXCEPT ![t] = Returning(@, FALSE)]
                /\ user_lock' = Exit(t)
                /\ burst' = Recorded(user_id, empty, t, FALSE)
           ELSE /\ frame' = [frame EXCEPT ![t].pc = "u_commit", ![t].fresh = empty,
                                          ![t].reqs = user_reqs]
                /\ user_lock' = Hold(t)
                /\ UNCHANGED burst
        /\ UNCHANGED <<config, history, decorated, global_requests, ip_requests, global_lock, ip_lock, now,
                       last, prev>>

\* lines 132-133, and the end of the with-block
UserCommit(t) ==
    /\ At(t, "u_commit")
    /\ user_requests' = [user_requests EXCEPT ![frame[t].user_id] =
            Increment(frame[t].reqs, frame[t].current_time)]
    /\ user_lock' = Unlocked
    /\ burst' = Recorded(frame[t].user_id, frame[t].fresh, t, TRUE)
    /\ frame' = [frame EXCEPT ![t] = AfterUser(@)]
    /\ UNCHANGED <<config, history, decorated, global_requests, ip_requests, global_lock, ip_lock, now,
                   last, prev>>

\* lines 137-151
IpEnter(t) ==
    LET current_time == frame[t].current_time
        ip_address == frame[t].ip_address
        tracked == EnsureKey(ip_requests, ip_address)
        ip_reqs == cleanup_expired_requests(Stored(tracked, ip_address), ip_window, current_time)
        empty == CounterEmpty(Stored(ip_requests, ip_address), ip_window, current_time)
    IN  /\ At(t, "i_enter")
        /\ CanAcquire(ip_lock)
        /\ ip_requests' = tracked
        /\ IF ~Holds(tracked, ip_address)
           THEN /\ frame' = [frame EXCEPT ![t] = Raising(@, KeyError)]
                /\ ip_lock' = Exit(t)
                /\ UNCHANGED burst
           ELSE IF OverLimit(ip_reqs, ip_limit)
           THEN /\ frame' = [frame EXCEPT ![t] = Returning(@, FALSE)]
                /\ ip_lock' = Exit(t)
                /\ burst' = Recorded(ip_address, empty, t, FALSE)
           ELSE /\ frame' = [frame EXCEPT ![t].pc = "i_commit", ![t].fresh = empty,
                                          ![t].reqs = ip_reqs]
                /\ ip_lock' = Hold(t)
                /\ UNCHANGED burst
        /\ UNCHANGED <<config, history, decorated, global_requests, user_requests, global_lock, user_lock,
                       now, last, prev>>

\* lines 154-157, and the end of the with-block
IpCommit(t) ==
    /\ At(t, "i_commit")
    /\ ip_requests' = [ip_requests EXCEPT ![frame[t].ip_address] =
            Increment(frame[t].reqs, frame[t].current_time)]
    /\ ip_lock' = Unlocked
    /\ burst' = Recorded(frame[t].ip_address, frame[t].fresh, t, TRUE)
    /\ frame' = [frame EXCEPT ![t] = Returning(@, TRUE)]
    /\ UNCHANGED <<config, history, decorated, global_requests, user_requests, global_lock, user_lock, now,
                   last, prev>>

\* The caller has the result; the thread may call again.
Return(t) ==
    /\ At(t, "done")
    /\ frame' = [frame EXCEPT ![t] = Idle]
    /\ UNCHANGED <<config, history, decorated, counters, locks, now, last, prev, burst>>

TickConc ==
    /\ ClockStep
    /\ UNCHANGED <<last, prev>>

NextConc ==
    \/ TickConc
    \/ \E t \in Threads, user_id \in ThreadUserArgs, ip_address \in IpArgs :
            Call(t, user_id, ip_address)
    \/ \E t \in Threads : GlobalEnter(t)
    \/ \E t \in Threads : GlobalCommit(t)
    \/ \E t \in Threads : UserEnter(t)
    \/ \E t \in Threads : UserCommit(t)
    \/ \E t \in Threads : IpEnter(t)
    \/ \E t \in Threads : IpCommit(t)
    \/ \E t \in Threads : Return(t)

SpecConc == Init /\ [][NextConc]_vars

\* ------------------------------------------- get_wait_time, by steps
\* get_wait_time takes no lock: each read of a stored map (the .copy() of
\* lines 218, 228, 238, with the sweep and sum of the copy) is one step, and
\* the membership tests of lines 226 and 236 are steps of their own.

\* The call returns max_wait (line 245).
ReturningWait(f) == [Idle EXCEPT !.op = f.op, !.pc = "done", !.max_wait = f.max_wait]

AfterWaitUser(f) ==
    IF f.ip_address # None THEN [f EXCEPT !.pc = "w_ip_test"] ELSE ReturningWait(f)

AfterWaitGlobal(f) ==
    IF f.user_id # None THEN [f EXCEPT !.pc = "w_user_test"] ELSE AfterWaitUser(f)

\* lines 213-214
WaitCall(t, user_id, ip_address) ==
    /\ At(t, "idle")
    /\ \A t2 \in Threads : t2 < t => ~At(t2, "idle")
    /\ frame' = [frame EXCEPT ![t] =
            [Idle EXCEPT !.op = "get_wait_time", !.pc = "w_global",
                         !.current_time = now,
                         !.user_id = user_id, !.ip_address = ip_address]]
    /\ UNCHANGED <<config, history, decorated, counters, locks, now, last, prev, burst>>

\* lines 217-223
WaitGlobal(t) ==
    /\ At(t, "w_global")
    /\ frame' = [frame EXCEPT ![t] = AfterWaitGlobal(
            [@ EXCEPT !.max_wait = ScopeWait(frame[t].max_wait, global_requests, global_limit,
                                             global_window, frame[t].current_time)])]
    /\ UNCHANGED <<config, history, decorated, counters, locks, now, last, prev, burst>>

\* line 226
WaitUserTest(t) ==
    /\ At(t, "w_user_test")
    /\ frame' = [frame EXCEPT ![t] =
            IF frame[t].user_id \in DOMAIN user_requests
            THEN [@ EXCEPT !.pc = "w_user"] ELSE AfterWaitUser(@)]
    /\ UNCHANGED <<config, history, decorated, counters, locks, now, last, prev, burst>>

\* lines 227-233
WaitUser(t) ==
    /\ At(t, "w_user")
    /\ frame' = [frame EXCEPT ![t] =
            IF ~Holds(user_requests, frame[t].user_id) THEN Raising(@, KeyError)
            ELSE AfterWaitUser(
                [@ EXCEPT !.max_wait = ScopeWait(frame[t].max_wait, user_requests[frame[t].user_id],
                                                 user_limit, user_window,
                                                 frame[t].current_time)])]
    /\ UNCHANGED <<config, history, decorated, counters, locks, now, last, prev, burst>>

\* line 236
WaitIpTest(t) ==
    /\ At(t, "w_ip_test")
    /\ frame' = [frame EXCEPT ![t] =
            IF frame[t].ip_address \in DOMAIN ip_requests
            THEN [@ EXCEPT !.pc = "w_ip"] ELSE ReturningWait(@)]
    /\ UNCHANGED <<config, history, decorated, counters, locks, now, last, prev, burst>>

\* lines 237-245
WaitIp(t) ==
    /\ At(t, "w_ip")
    /\ frame' = [frame EXCEPT ![t] =
            IF ~Holds(ip_requests, frame[t].ip_address) THEN Raising(@, KeyError)
            ELSE ReturningWait(
                [@ EXCEPT !.max_wait = ScopeWait(frame[t].max_wait, ip_requests[frame[t].ip_address],
                                                 ip_limit, ip_window, frame[t].current_time)])]
    /\ UNCHANGED <<config, history, decorated, counters, locks, now, last, prev, burst>>

\* Threads calling is_allowed and get_wait_time concurrently.
NextWait ==
    \/ NextConc
    \/ \E t \in Threads, user_id \in ThreadUserArgs, ip_address \in IpArgs :
            WaitCall(t, user_id, ip_address)
    \/ \E t \in Threads : WaitGlobal(t)
    \/ \E t \in Threads : WaitUserTest(t)
    \/ \E t \in Threads : WaitUser(t)
    \/ \E t \in Threads : WaitIpTest(t)
    \/ \E t \in Threads : WaitIp(t)

\* One limiter in which every scope can deny and every bucket can expire
\* while the clock runs: the global scope admits MaxLimit requests a second,
\* each user and each address one.
Narrow ==
    /\ global_limit = MaxLimit
    /\ global_window = 1
    /\ user_limit = 1
    /\ user_window = 1
    /\ ip_limit = 1
    /\ ip_window = 1

InitNarrow == Narrow /\ Constructed /\ Decorated(1, 1)

SpecWait == InitNarrow /\ [][NextWait]_vars

Next ==
    \/ Tick
    \/ \E user_id \in UserArgs, ip_address \in IpArgs :
            HasRoom(user_id, ip_address) /\ is_allowed(user_id, ip_address)
    \/ \E user_id \in UserArgs, ip_address \in IpArgs : get_wait_time(user_id, ip_address)

Spec == Init /\ [][Next]_vars

\* Calls for every user and every address, on the limiter in which every
\* scope can deny.
NextKeys ==
    \/ Tick
    \/ \E user_id \in UserArgs, ip_address \in AnyIpArgs :
            HasRoom(user_id, ip_address) /\ is_allowed(user_id, ip_address)

SpecKeys == InitNarrow /\ [][NextKeys]_vars

\* ------------------------------------------- the limiter as shipped
\* The default parameters of __init__ (lines 30-35).
DefaultGlobalLimit == 100
DefaultGlobalWindow == 60
DefaultUserLimit == 10
DefaultUserWindow == 60
DefaultIpLimit == 50
DefaultIpWindow == 60

\* RateLimiter(), as main() constructs it (line 251).
Defaults ==
    /\ global_limit = DefaultGlobalLimit
    /\ global_window = DefaultGlobalWindow
    /\ user_limit = DefaultUserLimit
    /\ user_window = DefaultUserWindow
    /\ ip_limit = DefaultIpLimit
    /\ ip_window = DefaultIpWindow

InitDefault == Defaults /\ Constructed /\ Decorated(DefaultLimit, DefaultWindow)

\* One user calls from one address (lines 253-258), MaxCalls times within
\* MaxSpan seconds, and may ask for the wait at any moment.
MaxCalls == 11
MaxSpan == 5

TickDefault ==
    /\ now < MaxSpan
    /\ now' = now + 1
    /\ last' = NoCall
    /\ prev' = counters
    /\ UNCHANGED <<config, history, decorated, counters, locks, frame, burst>>

NextDefault ==
    \/ TickDefault
    \/ burst["global"].n < MaxCalls /\ is_allowed("u1", "ip1")
    \/ \E ip_address \in IpArgs : get_wait_time("u1", ip_address)

SpecDefault == InitDefault /\ [][NextDefault]_vars

\* ------------------------------------------- the rate_limit decorator
\* The decorated function func and the arguments its callers pass: it
\* returns a value that tells with which arguments it ran.
Args == {"a", "b"}
func(args) == <<"func", args>>

\* lines 182-186: the wrapper's own sweep of requests.
SweepNothing(requests, window, current_time) == requests
Sweep(requests, window, current_time) ==
    [ts \in {t \in DOMAIN requests : current_time - t <= window} |-> requests[ts]]

\* lines 179-194, the body of `with lock:` as [ok, requests]: the sweep is
\* assigned to requests, then the wrapper raises or increments.
ThrottleCountsRejected(requests, current_time) ==
    LET swept == Sweep(requests, fn_window, current_time)
    IN  [ok |-> Sum(swept) < fn_limit, requests |-> Increment(swept, current_time)]
Throttle(requests, current_time) ==
    LET swept == Sweep(requests, fn_window, current_time)
    IN  IF Sum(swept) >= fn_limit
        THEN [ok |-> FALSE, requests |-> swept]
        ELSE [ok |-> TRUE, requests |-> Increment(swept, current_time)]

\* line 191: raise RuntimeError("Rate limit exceeded")
RateLimitExceeded == "RuntimeError: Rate limit exceeded"

\* line 196: return func(*args, **kwargs)
InvokeWithoutArgs(args) == [executed |-> 1, result |-> func(None)]
Invoke(args) == [executed |-> 1, result |-> func(args)]

\* wrapper(*args), lines 176-196, run without interruption.
wrapper(args) ==
    LET current_time == now
        th == Throttle(fn_requests, current_time)
        ran == IF th.ok THEN Invoke(args) ELSE [executed |-> 0, result |-> None]
        empty == CounterEmpty(fn_requests, fn_window, current_time)
    IN  /\ fn_requests' = th.requests
        /\ last' = [NoCall EXCEPT !.op = "wrapper", !.args = args,
                        !.raised = IF th.ok THEN None ELSE RateLimitExceeded,
                        !.result = ran.result, !.executed = ran.executed,
                        !.found = fn_requests]
        /\ fn_burst' = Attempt(fn_burst, empty, current_time, th.ok)
        /\ UNCHANGED <<config, history, counters, locks, frame, now, prev, burst,
                       fn_limit, fn_window, fn_lock, other_requests, other_lock>>

\* The decorator's arguments: every small limit and window, and
\* rate_limit(limit=3, window=10).
Throttles == (Limits \X Windows) \cup {<<3, 10>>}

InitThrottle ==
    /\ Defaults
    /\ Constructed
    /\ \E th \in Throttles : Decorated(th[1], th[2])

\* The clock runs until a whole window has passed and one second more.
TickThrottle ==
    /\ now < fn_window + 1
    /\ now' = now + 1
    /\ last' = NoCall
    /\ UNCHANGED <<config, history, decorated, counters, locks, frame, prev, burst>>

\* Calls made beyond the limit in one burst.
MaxExtra == 2

NextThrottle ==
    \/ TickThrottle
    \/ \E args \in Args :
            /\ \/ fn_burst.n < fn_limit + MaxExtra
               \/ CounterEmpty(fn_requests, fn_window, now)
            /\ wrapper(args)

SpecThrottle == InitThrottle /\ [][NextThrottle]_vars

\* -------------------------------------------------- wrapper, by steps
\* The decorated function called by concurrent threads: the with-block of
\* lines 179-194 is two steps as in is_allowed, and func runs after it.

InWrapper == Cardinality({t \in Threads : frame[t].pc \in {"f_enter", "f_commit"}})

\* line 177
WrapperCall(t, args) ==
    /\ At(t, "idle")
    /\ \A t2 \in Threads : t2 < t => ~At(t2, "idle")
    /\ \/ fn_burst.n + InWrapper < fn_limit + MaxExtra
       \/ CounterEmpty(fn_requests, fn_window, now)
    /\ frame' = [frame EXCEPT ![t] =
            [Idle EXCEPT !.op = "wrapper", !.pc = "f_enter", !.current_time = now,
                         !.args = args]]
    /\ UNCHANGED <<config, history, decorated, counters, locks, now, last, prev, burst>>

\* lines 179-191
WrapperEnter(t) ==
    LET current_time == frame[t].current_time
        swept == Sweep(fn_requests, fn_window, current_time)
        empty == CounterEmpty(fn_requests, fn_window, current_time)
    IN  /\ At(t, "f_enter")
        /\ CanAcquire(fn_lock)
        /\ fn_requests' = Assigned(fn_requests, swept)
        /\ IF Sum(swept) >= fn_limit
           THEN /\ frame' = [frame EXCEPT ![t] = Raising(@, RateLimitExceeded)]
                /\ fn_lock' = Exit(t)
                /\ fn_burst' = Attempt(fn_burst, empty, current_time, FALSE)
           ELSE /\ frame' = [frame EXCEPT ![t].pc = "f_commit", ![t].fresh = empty]
                /\ fn_lock' = Hold(t)
                /\ UNCHANGED fn_burst
        /\ UNCHANGED <<config, history, counters, locks, now, last, prev, burst,
                       fn_limit, fn_window, other_requests, other_lock>>

\* The with-block of the wrapper ends after line 194: the lock is released
\* before line 196 runs func.
ReleaseAfterFunc(t) == t
Release(t) == Unlocked

\* line 194, and the end of the with-block
WrapperCommit(t) ==
    /\ At(t, "f_commit")
    /\ fn_requests' = Increment(fn_requests, frame[t].current_time)
    /\ fn_lock' = Release(t)
    /\ fn_burst' = Attempt(fn_burst, frame[t].fresh, frame[t].current_time, TRUE)
    /\ frame' = [frame EXCEPT ![t].pc = "f_func"]
    /\ UNCHANGED <<config, history, counters, locks, now, last, prev, burst,
                   fn_limit, fn_window, other_requests, other_lock>>

\* line 196: func runs, outside the lock, and its result is returned.
\* A call func made of its own wrapper returns into func's body.
WrapperFunc(t) ==
    /\ At(t, "f_func")
    /\ frame' = [frame EXCEPT ![t] =
            IF frame[t].depth = 0
            THEN [Idle EXCEPT !.op = "wrapper", !.pc = "done",
                              !.result = Invoke(frame[t].args).result]
            ELSE [frame[t] EXCEPT !.depth = frame[t].depth - 1]]
    /\ UNCHANGED <<config, history, decorated, counters, locks, now, last, prev, burst>>

\* Threads calling is_allowed, get_wait_time and the decorated function in
\* one burst: every call reads the same time.time().
NextLive ==
    \/ \E t \in Threads, user_id \in ThreadUserArgs, ip_address \in IpArgs :
            Call(t, user_id, ip_address)
    \/ \E t \in Threads : GlobalEnter(t)
    \/ \E t \in Threads : GlobalCommit(t)
    \/ \E t \in Threads : UserEnter(t)
    \/ \E t \in Threads : UserCommit(t)
    \/ \E t \in Threads : IpEnter(t)
    \/ \E t \in Threads : IpCommit(t)
    \/ \E t \in Threads : Return(t)
    \/ \E t \in Threads, user_id \in ThreadUserArgs, ip_address \in IpArgs :
            WaitCall(t, user_id, ip_address)
    \/ \E t \in Threads : WaitGlobal(t)
    \/ \E t \in Threads : WaitUserTest(t)
    \/ \E t \in Threads : WaitUser(t)
    \/ \E t \in Threads : WaitIpTest(t)
    \/ \E t \in Threads : WaitIp(t)
    \/ \E t \in Threads, args \in Args : WrapperCall(t, args)
    \/ \E t \in Threads : WrapperEnter(t)
    \/ \E t \in Threads : WrapperCommit(t)
    \/ \E t \in Threads : WrapperFunc(t)

\* Thread t's next step inside a call: taking a lock, or any other step.
Acquire(t) ==
    GlobalEnter(t) \/ UserEnter(t) \/ IpEnter(t) \/ WrapperEnter(t)

Proceed(t) ==
    \/ GlobalCommit(t) \/ UserCommit(t) \/ IpCommit(t)
    \/ WaitGlobal(t) \/ WaitUserTest(t) \/ WaitUser(t) \/ WaitIpTest(t) \/ WaitIp(t)
    \/ WrapperCommit(t) \/ WrapperFunc(t)

\* Every thread inside a call keeps being scheduled, and a thread waiting
\* for a lock that is free again and again gets it.
Fairness == \A t \in Threads : WF_vars(Proceed(t)) /\ SF_vars(Acquire(t))

SpecLive == InitNarrow /\ [][NextLive]_vars /\ Fairness

\* ============================================================ claims
\* The vocabulary of the claims, stated apart from the code's operators.

LimitOf(k) ==
    IF k = "global" THEN global_limit ELSE IF k \in Users THEN user_limit ELSE ip_limit

WindowOf(k) ==
    IF k = "global" THEN global_window ELSE IF k \in Users THEN user_window ELSE ip_window

\* The bucket map of scope key k in the counters cs (the empty map for a key
\* the scope does not track).
CounterOf(cs, k) ==
    IF k = "global" THEN cs[1] ELSE IF k \in Users THEN Stored(cs[2], k)
    ELSE Stored(cs[3], k)

CountAt(request_dict, ts) ==
    IF ts \in DOMAIN request_dict THEN request_dict[ts] ELSE 0

\* The retained count: the sum of the buckets within window of the time t.
Retained(request_dict, window, t) ==
    SumOver(request_dict, {ts \in DOMAIN request_dict : t - ts <= window})

RetainedOf(cs, k) == Retained(CounterOf(cs, k), WindowOf(k), now)
AtLimit(cs, k) == RetainedOf(cs, k) >= LimitOf(k)

Earliest(request_dict) ==
    CHOOSE ts \in DOMAIN request_dict : \A o \in DOMAIN request_dict : ts <= o
Latest(request_dict) ==
    CHOOSE ts \in DOMAIN request_dict : \A o \in DOMAIN request_dict : ts >= o

InOneWindow(k) == burst[k].n > 0 /\ burst[k].hi - burst[k].lo <= WindowOf(k)

\* What the last call's scopes decided, per scope key.
VerdictOf(k) ==
    IF k = "global" THEN last.g
    ELSE IF k = last.user_id THEN last.u
    ELSE IF k = last.ip_address THEN last.i
    ELSE "skip"

\* The scopes of the last is_allowed call as section 4.3 of the specification
\* describes them, from the counters the call found.
GDenied == AtLimit(prev, "global")
UAsked == ~GDenied /\ last.user_id # None
UDenied == UAsked /\ AtLimit(prev, last.user_id)
IAsked == ~GDenied /\ ~UDenied /\ last.ip_address # None
IDenied == IAsked /\ AtLimit(prev, last.ip_address)

\* C1: for every scope key, of the attempts made on it inside one window
\* since its counter was empty, the first limit are admitted and every
\* further one is denied: after n attempts, min(n, limit) were admitted.
C1_FirstLimitAdmitted ==
    \A k \in ScopeKeys :
        InOneWindow(k) => burst[k].ok = Min(burst[k].n, LimitOf(k))

\* N = limit >= 2 attempts admitted at different times of one window, and
\* the (N+1)-th denied.
C1_Witness ==
    \E k \in ScopeKeys :
        /\ InOneWindow(k) /\ burst[k].hi > burst[k].lo
        /\ LimitOf(k) >= 2
        /\ burst[k].n = LimitOf(k) + 1
        /\ burst[k].ok = LimitOf(k)
        /\ last.op = "is_allowed" /\ VerdictOf(k) = "deny"

\* C2: with concurrent threads, under every interleaving, of limit + j
\* attempts on one key inside one window exactly limit are admitted and
\* exactly j denied; never more than limit are admitted.
C2_ExactlyLimitAdmitted ==
    \A k \in ScopeKeys :
        InOneWindow(k) =>
            /\ burst[k].ok <= LimitOf(k)
            /\ burst[k].n >= LimitOf(k) =>
                    /\ burst[k].ok = LimitOf(k)
                    /\ burst[k].n - burst[k].ok = burst[k].n - LimitOf(k)

\* Two threads were in the call at the same time for user u1 with one slot
\* left: one was admitted and the other denied.
C2_Witness ==
    /\ user_limit = 1 /\ now = 0
    /\ \A t \in {1, 2} : At(t, "done")
    /\ frame[1].ret # frame[2].ret
    /\ burst["global"].n = 2 /\ burst["global"].ok = 2
    /\ burst["u1"].n = 2 /\ burst["u1"].ok = 1

\* C3: once a scope has admitted a key, the key's buckets within window of
\* the current time sum to at most the scope's limit; the global counter
\* included, which also counts requests a narrower scope then denied.
C3_RetainedWithinLimit ==
    \A k \in ScopeKeys :
        CounterOf(counters, k) # EmptyMap => RetainedOf(counters, k) <= LimitOf(k)

\* The global scope has just admitted a request that the user scope then
\* denied, and stands at its limit.
C3_Witness ==
    /\ last.op = "is_allowed" /\ last.g = "admit" /\ last.u = "deny"
    /\ RetainedOf(counters, "global") = global_limit

\* C4: a key that was denied is admitted again by its scope once the clock
\* is more than window past the key's earliest recorded bucket; the scope
\* still admits at most limit attempts in one window, and all limit of them
\* when every earlier bucket has expired (the admitted attempt is then the
\* only one retained).
C4_AdmissibleAfterExpiry ==
    \A k \in ScopeKeys :
        LET before == CounterOf(prev, k)
        IN  /\ ( /\ last.op = "is_allowed" /\ VerdictOf(k) # "skip"
                 /\ burst[k].denied
                 /\ before # EmptyMap
                 /\ now - Earliest(before) > WindowOf(k) )
               => /\ VerdictOf(k) = "admit"
                  /\ now - Latest(before) > WindowOf(k)
                        => RetainedOf(counters, k) = 1
            /\ InOneWindow(k) => burst[k].ok <= LimitOf(k)

C4_Witness ==
    \E k \in ScopeKeys :
        /\ last.op = "is_allowed" /\ VerdictOf(k) = "admit"
        /\ burst[k].denied
        /\ CounterOf(prev, k) # EmptyMap
        /\ SumOver(CounterOf(prev, k), DOMAIN CounterOf(prev, k)) = LimitOf(k)
        /\ now - Earliest(CounterOf(prev, k)) > WindowOf(k)

\* C5: every is_allowed call the global scope admits adds one to the global
\* counter, whatever the user and IP scopes then decide.  With a user limit
\* of 1 and a global limit of at least 2, two calls of one user in one
\* window leave the global count at 2, and the second call returns False.
C5_GlobalQuotaConsumed ==
    /\ (last.op = "is_allowed" /\ last.g = "admit") =>
            /\ RetainedOf(counters, "global") = RetainedOf(prev, "global") + 1
            /\ CountAt(global_requests, now) = CountAt(prev[1], now) + 1
    /\ \A u \in Users :
            ( /\ user_limit = 1 /\ global_limit >= 2
              /\ InOneWindow("global") /\ burst["global"].n = 2
              /\ InOneWindow(u) /\ burst[u].n = 2 )
            => /\ RetainedOf(counters, "global") = 2
               /\ burst[u].ok = 1
               /\ (last.op = "is_allowed" /\ last.user_id = u) => ~last.allowed

C5_Witness ==
    /\ user_limit = 1 /\ global_limit >= 2
    /\ last.op = "is_allowed" /\ last.g = "admit" /\ last.u = "deny"
    /\ ~last.allowed
    /\ burst["global"].n = 2 /\ burst[last.user_id].n = 2
    /\ RetainedOf(counters, "global") = 2

\* C6: is_allowed consults the global scope, then the user scope if a
\* user_id is given, then the IP scope if an ip_address is given, and stops
\* at the first denial: a global denial leaves the user and IP counters as
\* they were, a user denial leaves the IP counters as they were, and the
\* call returns True exactly when no consulted scope denied.
C6_ScopeOrder ==
    last.op = "is_allowed" =>
        /\ last.g = (IF GDenied THEN "deny" ELSE "admit")
        /\ last.u = (IF ~UAsked THEN "skip" ELSE IF UDenied THEN "deny" ELSE "admit")
        /\ last.i = (IF ~IAsked THEN "skip" ELSE IF IDenied THEN "deny" ELSE "admit")
        /\ ~UAsked => user_requests = prev[2]
        /\ ~IAsked => ip_requests = prev[3]
        /\ last.allowed = (~GDenied /\ ~UDenied /\ ~IDenied)

\* The global scope denied a call that named a user the limiter has never
\* tracked and an IP address: neither key was created.
C6_Witness ==
    /\ global_limit >= 1
    /\ last.op = "is_allowed" /\ last.g = "deny"
    /\ last.user_id # None /\ last.user_id \notin DOMAIN user_requests
    /\ last.ip_address # None /\ last.ip_address \notin DOMAIN ip_requests

\* C7: in each scope an attempt is all or nothing.  A scope that denies had
\* a retained count at or over its limit and leaves every bucket of the key
\* as it was; a scope that admits adds exactly one to the bucket of the
\* call's timestamp and to the retained count, and to no other bucket.
C7_AllOrNothing ==
    last.op = "is_allowed" =>
        \A k \in ScopeKeys :
            LET before == CounterOf(prev, k)
                after == CounterOf(counters, k)
            IN  /\ VerdictOf(k) = "deny" =>
                    /\ RetainedOf(prev, k) >= LimitOf(k)
                    /\ \A ts \in DOMAIN after :
                            ts \in DOMAIN before /\ after[ts] = before[ts]
                    /\ RetainedOf(counters, k) = RetainedOf(prev, k)
                /\ VerdictOf(k) = "admit" =>
                    /\ RetainedOf(prev, k) < LimitOf(k)
                    /\ CountAt(after, now) = CountAt(before, now) + 1
                    /\ \A ts \in DOMAIN after \ {now} :
                            ts \in DOMAIN before /\ after[ts] = before[ts]
                    /\ RetainedOf(counters, k) = RetainedOf(prev, k) + 1

\* The global scope admitted and committed, the user scope denied.
C7_Witness ==
    /\ last.op = "is_allowed" /\ last.g = "admit" /\ last.u = "deny"
    /\ CountAt(global_requests, now) >= 2
    /\ CounterOf(counters, last.user_id) # EmptyMap

\* The wait estimate of one scope key, as section 4.2 of the specification
\* states it: the window when the retained count is at or over the limit,
\* and 0 when the next attempt would be admitted.
Estimate(k) == IF AtLimit(counters, k) THEN WindowOf(k) ELSE 0

\* C8: for one scope key, the wait is 0 when the scope would admit the key's
\* next attempt and the scope's window when the key's retained count is at
\* or over the limit.  (The global scope alone with no arguments; a user or
\* IP key alone while the global scope is under its limit.)
C8_ScopeEstimate ==
    last.op = "get_wait_time" =>
        /\ (last.user_id = None /\ last.ip_address = None)
                => last.wait = Estimate("global")
        /\ (last.user_id # None /\ last.ip_address = None
                /\ ~AtLimit(counters, "global"))
                => last.wait = Estimate(last.user_id)
        /\ (last.user_id = None /\ last.ip_address # None
                /\ ~AtLimit(counters, "global"))
                => last.wait = Estimate(last.ip_address)

MaxOf(S) == IF S = {} THEN 0 ELSE CHOOSE x \in S : \A y \in S : x >= y

\* C9: get_wait_time returns the largest estimate over the applicable
\* scopes: the largest window among the scopes at or over their limit, or 0.
C9_MaxOverScopes ==
    last.op = "get_wait_time" =>
        last.wait = MaxOf({Estimate(k) :
                            k \in ({"global", last.user_id, last.ip_address} \ {None})})

\* C10: get_wait_time changes no counter: the global map, every user's and
\* IP address's map and the sets of tracked keys are as the call found them.
C10_WaitReadOnly ==
    last.op = "get_wait_time" =>
        /\ global_requests = prev[1]
        /\ user_requests = prev[2]
        /\ ip_requests = prev[3]
        /\ DOMAIN user_requests = DOMAIN prev[2]
        /\ DOMAIN ip_requests = DOMAIN prev[3]

\* The call named a user the limiter does not track while the global map
\* held an expired bucket: no key was created and no sweep committed.
C10_Witness ==
    /\ last.op = "get_wait_time"
    /\ last.user_id # None /\ last.user_id \notin DOMAIN user_requests
    /\ \E ts \in DOMAIN global_requests : now - ts > global_window

\* C11: with the limits 100/60 s global, 10/60 s per user and 50/60 s per
\* address, of the calls one user makes from one address within 5 seconds
\* the first 10 are allowed and the 11th (and any later one) is denied; and
\* once the 11th call was made the wait reported for that user is 60.
C11_ConcreteScenario ==
    /\ burst["u1"].ok = Min(burst["global"].n, 10)
    /\ last.op = "is_allowed" => last.allowed = (burst["global"].n <= 10)
    /\ (last.op = "get_wait_time" /\ burst["global"].n >= 11) => last.wait = 60

\* The 11 calls were spread over the 5 seconds, the 11th was denied by the
\* user scope, and the wait was then asked for the user alone.
C11_Witness ==
    /\ burst["global"].n = 11 /\ burst["global"].ok = 11
    /\ burst["u1"].n = 11 /\ burst["u1"].ok = 10 /\ burst["ip1"].ok = 10
    /\ now = 5 /\ Cardinality(DOMAIN global_requests) >= 3
    /\ last.op = "get_wait_time" /\ last.ip_address = None /\ last.wait = 60

\* The throttle's private retained count: the buckets of its map within
\* window of the current time.
FnRetained(request_dict) == Retained(request_dict, fn_window, now)

\* C12: a call of the decorated function made while the throttle's retained
\* count is at or over its limit does not run the function, leaves every
\* bucket of the throttle and its retained count as they were, returns no
\* value, and ends in the error RuntimeError("Rate limit exceeded").
C12_RejectedNotExecuted ==
    (last.op = "wrapper" /\ FnRetained(last.found) >= fn_limit) =>
        /\ last.executed = 0
        /\ last.raised = RateLimitExceeded
        /\ last.result = None
        /\ \A ts \in DOMAIN fn_requests :
                ts \in DOMAIN last.found /\ fn_requests[ts] = last.found[ts]
        /\ FnRetained(fn_requests) = FnRetained(last.found)

\* A call was rejected at a positive limit, by buckets of two timestamps.
C12_Witness ==
    /\ last.op = "wrapper" /\ last.raised = RateLimitExceeded
    /\ fn_limit >= 2
    /\ Cardinality(DOMAIN fn_requests) >= 2

\* C13: a call of the decorated function made while the throttle's retained
\* count is below its limit adds one to the bucket of the call's timestamp
\* and to the retained count, runs the function exactly once with the
\* caller's arguments, raises nothing and returns the function's result.
C13_AdmittedExecutedOnce ==
    (last.op = "wrapper" /\ FnRetained(last.found) < fn_limit) =>
        /\ CountAt(fn_requests, now) = CountAt(last.found, now) + 1
        /\ FnRetained(fn_requests) = FnRetained(last.found) + 1
        /\ last.executed = 1
        /\ last.raised = None
        /\ last.result = func(last.args)

\* The second call of a burst was admitted, with arguments other than the
\* first call's.
C13_Witness ==
    /\ last.op = "wrapper" /\ last.raised = None /\ last.args = "b"
    /\ last.result = <<"func", "b">>
    /\ FnRetained(last.found) >= 1

\* C14: of the calls made on a throttle inside one window since its
\* counter was empty the first limit succeed and every further one raises;
\* and a call made when every earlier call is more than window seconds old
\* succeeds again (limit >= 1).  For rate_limit(limit=3, window=10): calls
\* 1-3 succeed, call 4 within the 10 s raises, a call after 11 s succeeds.
C14_ThrottleWindow ==
    /\ (fn_burst.n > 0 /\ fn_burst.hi - fn_burst.lo <= fn_window)
            => fn_burst.ok = Min(fn_burst.n, fn_limit)
    /\ ( /\ last.op = "wrapper" /\ fn_limit >= 1
         /\ \A ts \in DOMAIN last.found : now - ts > fn_window )
            => last.raised = None

\* rate_limit(limit=3, window=10): three calls at second 0 succeeded, a
\* fourth raised, and the call at second 11 succeeded.
C14_Witness ==
    /\ fn_limit = 3 /\ fn_window = 10 /\ now = 11
    /\ fn_burst.denied
    /\ last.op = "wrapper" /\ last.raised = None
    /\ last.found = (0 :> 3)

\* C15: no is_allowed or get_wait_time call ends in an exception, whatever
\* arguments are given or absent and whatever the other threads are doing:
\* an is_allowed call ends by returning True or False, a get_wait_time call
\* by returning 0 or a window.
C15_NeverRaises ==
    \A t \in Threads :
        /\ frame[t].raised = None
        /\ (At(t, "done") /\ frame[t].op = "is_allowed") => frame[t].ret \in BOOLEAN
        /\ (At(t, "done") /\ frame[t].op = "get_wait_time")
                => frame[t].max_wait \in {0, global_window, user_window, ip_window}

\* A get_wait_time call has found the user's key (line 226) and is about
\* to read the user's map (line 228) while another thread, which created
\* that key, is inside the user scope's with-block; a third call was denied.
C15_Witness ==
    \E t1, t2 \in Threads :
        /\ At(t1, "u_commit") /\ frame[t1].reqs = EmptyMap
        /\ At(t2, "w_user") /\ frame[t2].user_id = frame[t1].user_id
        /\ user_requests[frame[t1].user_id] = EmptyMap
        /\ burst["global"].n >= 2

\* The threads inside the with-block of a scope, past its limit test.
InGlobal == {t \in Threads : At(t, "g_commit")}
InUser == {t \in Threads : At(t, "u_commit")}
InIp == {t \in Threads : At(t, "i_commit")}

\* The step is taken by the thread that holds the lock or by one that
\* takes the free lock.
ByHolder(lock, inside) ==
    \/ lock = Unlocked
    \/ lock \in inside

\* C16: a scope's bucket maps are written only by the thread holding the
\* scope's lock; the lock is held from the sweep to the increment, by at
\* most one thread at a time; and no increment is lost: the map a thread
\* swept and summed is still the stored one when it writes its increment.
C16_WritesUnderLock ==
    /\ [](/\ Cardinality(InGlobal) <= 1 /\ Cardinality(InUser) <= 1
          /\ Cardinality(InIp) <= 1
          /\ \A t \in Threads :
                /\ t \in InGlobal <=> global_lock = t
                /\ t \in InUser <=> user_lock = t
                /\ t \in InIp <=> ip_lock = t
          /\ \A t \in InUser :
                frame[t].reqs = cleanup_expired_requests(
                    Stored(user_requests, frame[t].user_id), user_window,
                    frame[t].current_time)
          /\ \A t \in InIp :
                frame[t].reqs = cleanup_expired_requests(
                    Stored(ip_requests, frame[t].ip_address), ip_window,
                    frame[t].current_time))
    /\ [][ /\ global_requests' # global_requests => ByHolder(global_lock, InGlobal)
           /\ user_requests' # user_requests => ByHolder(user_lock, InUser)
           /\ ip_requests' # ip_requests => ByHolder(ip_lock, InIp) ]_vars

\* Both threads were admitted by the global scope and counted in one
\* bucket; one is inside the user with-block and the other waits for the
\* user lock, for the same user.
C16_Witness ==
    \E t1, t2 \in Threads :
        /\ At(t1, "u_commit") /\ At(t2, "u_enter")
        /\ user_lock = t1 /\ frame[t1].user_id = frame[t2].user_id
        /\ \E ts \in DOMAIN global_requests : global_requests[ts] = 2

\* C17: get_wait_time reads each scope's map -- the sweep and sum of lines
\* 217-222, 227-232 and 237-242 -- while holding that scope's lock.
C17_WaitUnderLock ==
    \A t \in Threads :
        /\ At(t, "w_global") => global_lock = t
        /\ At(t, "w_user") => user_lock = t
        /\ At(t, "w_ip") => ip_lock = t

\* A get_wait_time call reads the global map while another thread is
\* inside the global with-block of is_allowed, between sweep and increment.
C17_ReadDuringAdmission ==
    \E t1, t2 \in Threads :
        /\ At(t1, "g_commit") /\ global_lock = t1
        /\ At(t2, "w_global")

\* The locks thread t holds.
HeldBy(t) ==
    (IF global_lock = t THEN 1 ELSE 0) + (IF user_lock = t THEN 1 ELSE 0)
    + (IF ip_lock = t THEN 1 ELSE 0) + (IF fn_lock = t THEN 1 ELSE 0)

Busy(t) == ~At(t, "idle") /\ ~At(t, "done")

\* Thread t is waiting for a lock another thread holds.
Blocked(t) ==
    \/ At(t, "g_enter") /\ global_lock # Unlocked
    \/ At(t, "u_enter") /\ user_lock # Unlocked
    \/ At(t, "i_enter") /\ ip_lock # Unlocked
    \/ At(t, "f_enter") /\ fn_lock # Unlocked

\* C18: under fair scheduling every call of is_allowed, of get_wait_time
\* and of the decorated function that a thread has begun comes to its end.
\* No thread ever holds two locks; a thread whose call has ended (by
\* return, on the admit or the deny path, or by raise) holds none; and
\* while calls are in progress one of them can take a step (no deadlock).
C18_CallsReturn ==
    /\ [](\A t \in Threads :
            /\ HeldBy(t) <= 1
            /\ ~Busy(t) => HeldBy(t) = 0)
    /\ []((\E t \in Threads : Busy(t)) => (\E t \in Threads : Busy(t) /\ ~Blocked(t)))
    /\ \A t \in Threads : Busy(t) ~> At(t, "done")

\* One thread is inside the with-block of the decorated function while the
\* other waits for its lock, after an is_allowed call was denied inside the
\* user with-block.
C18_Witness ==
    \E t1, t2 \in Threads :
        /\ At(t1, "f_commit") /\ fn_lock = t1
        /\ At(t2, "f_enter") /\ Blocked(t2)
        /\ burst["u1"].denied
        /\ user_lock = Unlocked

\* The buckets of a map that are older than window at the current time.
Expired(request_dict, window) == {ts \in DOMAIN request_dict : now - ts > window}

\* The scope keys a call with the last call's arguments concerns.
Applicable == {"global", last.user_id, last.ip_address} \ {None}

\* C19: buckets older than window count toward no decision and no
\* estimate.  A scope denies exactly when the buckets of the key that are
\* at most window old sum to the limit or more, whatever older buckets the
\* stored map still holds; get_wait_time reports a wait only for a scope
\* whose buckets at most window old reach the limit; and a stored bucket
\* disappears only in an is_allowed call that examines its key.
C19_ExpiredNotCounted ==
    /\ last.op = "is_allowed" =>
            \A k \in ScopeKeys :
                VerdictOf(k) # "skip" =>
                    ((VerdictOf(k) = "deny") <=> (RetainedOf(prev, k) >= LimitOf(k)))
    /\ last.op = "get_wait_time" =>
            /\ (\A k \in Applicable : ~AtLimit(counters, k)) => last.wait = 0
            /\ last.wait > 0 =>
                    \E k \in Applicable : AtLimit(counters, k) /\ WindowOf(k) = last.wait
    /\ \A k \in ScopeKeys :
            (DOMAIN CounterOf(prev, k) \ DOMAIN CounterOf(counters, k) # {})
                => (last.op = "is_allowed" /\ VerdictOf(k) # "skip")

\* A user's stored map still holds an expired bucket that alone reaches the
\* limit, after a denied call left it in place; the user's next call is
\* admitted.
C19_Witness ==
    \E k \in Users :
        /\ burst[k].denied
        /\ last.op = "is_allowed" /\ VerdictOf(k) = "admit"
        /\ LimitOf(k) >= 1
        /\ Expired(CounterOf(prev, k), WindowOf(k)) # {}
        /\ SumOver(CounterOf(prev, k), Expired(CounterOf(prev, k), WindowOf(k)))
                >= LimitOf(k)

\* C20: is_allowed(user_id, ip_address) changes no bucket map but the
\* global one, user_id's and ip_address's.  With user_id absent the user
\* scope is left as it was, with ip_address absent the IP scope; no other
\* user's or address's key is created, removed or changed; and what a
\* scope decides for a key follows from that key's own buckets alone.
C20_OtherKeysUntouched ==
    last.op = "is_allowed" =>
        /\ last.user_id = None => user_requests = prev[2]
        /\ last.ip_address = None => ip_requests = prev[3]
        /\ \A u \in Users \ {last.user_id} :
                /\ u \in DOMAIN user_requests <=> u \in DOMAIN prev[2]
                /\ Stored(user_requests, u) = Stored(prev[2], u)
        /\ \A a \in Ips \ {last.ip_address} :
                /\ a \in DOMAIN ip_requests <=> a \in DOMAIN prev[3]
                /\ Stored(ip_requests, a) = Stored(prev[3], a)
        /\ \A k \in {last.user_id, last.ip_address} \ {None} :
                /\ VerdictOf(k) = "deny" => AtLimit(prev, k)
                /\ VerdictOf(k) = "admit" => ~AtLimit(prev, k)

\* A call for user u2 from address ip2 is allowed while user u1 and
\* address ip1 stand at their limits, and leaves their maps in place.
C20_Witness ==
    /\ last.op = "is_allowed" /\ last.allowed
    /\ last.user_id = "u2" /\ last.ip_address = "ip2"
    /\ AtLimit(prev, "u1") /\ AtLimit(prev, "ip1")
    /\ user_limit >= 1 /\ ip_limit >= 1
    /\ DOMAIN user_requests = Users /\ DOMAIN ip_requests = Ips

\* C21: a user's or an address's sub-map appears only in an is_allowed call
\* that reaches the key's scope with a key not yet tracked (also when the
\* scope then denies), and a tracked key stays tracked: no step removes a
\* key, and get_wait_time and the clock create none.
C21_KeysOnlyAdded ==
    /\ [](/\ last.op = "is_allowed" =>
                /\ DOMAIN user_requests =
                        DOMAIN prev[2] \cup (IF last.u = "skip" THEN {} ELSE {last.user_id})
                /\ DOMAIN ip_requests =
                        DOMAIN prev[3] \cup (IF last.i = "skip" THEN {} ELSE {last.ip_address})
          /\ last.op # "is_allowed" =>
                /\ DOMAIN user_requests = DOMAIN prev[2]
                /\ DOMAIN ip_requests = DOMAIN prev[3])
    /\ [][ /\ DOMAIN user_requests \subseteq DOMAIN user_requests'
           /\ DOMAIN ip_requests \subseteq DOMAIN ip_requests' ]_vars

\* A user met for the first time was denied by the user scope and is
\* tracked with an empty map, next to the other user's key, which an
\* earlier denied call created and a clock step did not remove.
C21_Witness ==
    /\ last.op = "is_allowed" /\ last.u = "deny"
    /\ last.user_id \notin DOMAIN prev[2]
    /\ user_requests[last.user_id] = EmptyMap
    /\ DOMAIN prev[2] # {}
    /\ now > 0

\* A scope key the last call asked whose stored buckets were all recorded
\* at the one time ts, and filled the key's limit.
FilledAt(k, ts) ==
    /\ last.op = "is_allowed" /\ VerdictOf(k) # "skip"
    /\ DOMAIN CounterOf(prev, k) = {ts}
    /\ CounterOf(prev, k)[ts] >= LimitOf(k)

\* C27: the window boundary is inclusive. A bucket whose age is exactly the
\* window is kept by the sweep and counted, and a bucket is dropped only when
\* its age exceeds the window: a key whose buckets were all recorded at ts
\* and filled its limit is denied up to and at ts + window and admitted at
\* every later time.
C27_InclusiveBoundary ==
    /\ \A k \in ScopeKeys : \A ts \in Times :
            FilledAt(k, ts) =>
                /\ now - ts <= WindowOf(k) => VerdictOf(k) = "deny"
                /\ now - ts > WindowOf(k) => VerdictOf(k) = "admit"
    /\ last.op = "is_allowed" =>
            \A ts \in DOMAIN prev[1] :
                /\ now - ts <= global_window =>
                        ts \in DOMAIN global_requests
                /\ now - ts > global_window =>
                        ts \notin DOMAIN global_requests

\* A key filled at ts is asked at exactly ts + window and denied, its bucket
\* of age window still stored.
C27_Witness ==
    \E ts \in Times :
        /\ FilledAt("global", ts)
        /\ now = ts + global_window
        /\ last.g = "deny"
        /\ ts \in DOMAIN global_requests

\* C30: a call with a user and an address that the global scope and the user
\* scope admit and the address scope denies returns False; the global counter
\* and the user's counter each hold one request more, at the time of the
\* call, than before, and the address's counter holds what it held.
C30_IpDenialConsumesUserQuota ==
    (/\ last.op = "is_allowed"
     /\ last.user_id # None /\ last.ip_address # None
     /\ last.g = "admit" /\ last.u = "admit" /\ last.i = "deny") =>
        /\ ~last.allowed
        /\ RetainedOf(counters, "global") = RetainedOf(prev, "global") + 1
        /\ CountAt(global_requests, now) = CountAt(prev[1], now) + 1
        /\ RetainedOf(counters, last.user_id) = RetainedOf(prev, last.user_id) + 1
        /\ CountAt(user_requests[last.user_id], now) =
                CountAt(CounterOf(prev, last.user_id), now) + 1
        /\ last.ip_address \in DOMAIN ip_requests
        /\ CounterOf(counters, last.ip_address) = CounterOf(prev, last.ip_address)

\* The address scope denied a call the other two scopes admitted, with the
\* address's earlier request still counted.
C30_Witness ==
    /\ last.op = "is_allowed"
    /\ last.g = "admit" /\ last.u = "admit" /\ last.i = "deny"
    /\ RetainedOf(prev, last.ip_address) > 0
    /\ RetainedOf(prev, last.user_id) > 0

\* What is_allowed(user_id, ip_address) would return at current_time from
\* the counters as they stand (lines 96-157).
Allowed(user_id, ip_address, current_time) ==
    LET g == GlobalScope(global_requests, current_time)
        askU == AskUser(g, user_id)
        u == IF askU THEN UserScope(user_id, current_time)
             ELSE [ok |-> TRUE, requests |-> user_requests]
        askI == AskIp(g, u, ip_address)
        i == IF askI THEN IpScope(ip_address, current_time)
             ELSE [ok |-> TRUE, requests |-> ip_requests]
    IN  g.ok /\ u.ok /\ i.ok

\* After a denied is_allowed call, get_wait_time with the same arguments at
\* the same clock value would return a positive wait.
DeniedThenPositiveWait ==
    (last.op = "is_allowed" /\ ~last.allowed) =>
        WaitTime(last.user_id, last.ip_address, now) > 0

\* After get_wait_time has returned 0, is_allowed with the same arguments at
\* the same clock value would return True.
ZeroWaitThenAllowed ==
    (last.op = "get_wait_time" /\ last.wait = 0) =>
        Allowed(last.user_id, last.ip_address, now)

\* C29: is_allowed returning False implies a positive get_wait_time at the
\* same clock value, and get_wait_time returning 0 implies that is_allowed
\* with the same arguments returns True, for every configuration and every
\* key, tracked or never seen.
C29_WaitAgreesWithAdmission == DeniedThenPositiveWait /\ ZeroWaitThenAllowed

\* get_wait_time has returned 0 for a user the limiter has never seen, and
\* is_allowed would deny that user.
C29_ZeroWaitForDeniedKey ==
    /\ last.op = "get_wait_time" /\ last.wait = 0
    /\ last.user_id # None /\ last.user_id \notin DOMAIN user_requests
    /\ ~Allowed(last.user_id, last.ip_address, now)

\* ------------------------------------------- two decorated functions
\* rate_limit(limit, window) applied to a second function: decorator runs
\* again (lines 171-173) and binds a new requests map and a new lock, which
\* the second wrapper's nonlocal requests (line 181) refers to.
other_func(args) == <<"other_func", args>>

SharedRequests == fn_requests
OtherRequests == other_requests

\* The second function's wrapper(*args), lines 176-196, run without
\* interruption.
other_wrapper(args) ==
    LET current_time == now
        th == Throttle(OtherRequests, current_time)
    IN  /\ other_requests' = th.requests
        /\ last' = [NoCall EXCEPT !.op = "other_wrapper", !.args = args,
                        !.raised = IF th.ok THEN None ELSE RateLimitExceeded,
                        !.result = IF th.ok THEN other_func(args) ELSE None,
                        !.executed = IF th.ok THEN 1 ELSE 0,
                        !.found = other_requests]
        /\ UNCHANGED <<config, history, counters, locks, frame, now, prev, burst,
                       fn_limit, fn_window, fn_requests, fn_lock, fn_burst,
                       other_lock>>

InitTwo ==
    /\ Narrow
    /\ Constructed
    /\ \E th \in Limits \X Windows : Decorated(th[1], th[2])

\* One caller using the limiter and both decorated functions.
NextTwo ==
    \/ Tick
    \/ \E args \in Args :
            /\ \/ fn_burst.n < fn_limit + MaxExtra
               \/ CounterEmpty(fn_requests, fn_window, now)
            /\ wrapper(args)
    \/ \E args \in Args : other_wrapper(args)
    \/ /\ HasRoom("u1", "ip1")
       /\ is_allowed("u1", "ip1")

SpecTwo == InitTwo /\ [][NextTwo]_vars

\* C22: each decorated function has its own requests map and lock. A call of
\* one wrapper leaves the limiter's three counters and locks and the other
\* wrapper's map and lock as they were; is_allowed leaves both wrappers' maps
\* and locks as they were; and a wrapper raises exactly when its own retained
\* count is at the limit, however many requests the other wrapper, created
\* with the same limit and window, holds.
C22_PrivateThrottles ==
    /\ [](/\ last.op = "wrapper" =>
                (last.raised = RateLimitExceeded
                    <=> Retained(last.found, fn_window, now) >= fn_limit)
          /\ last.op = "other_wrapper" =>
                (last.raised = RateLimitExceeded
                    <=> Retained(last.found, fn_window, now) >= fn_limit))
    /\ [][ /\ last'.op = "wrapper" =>
                /\ UNCHANGED <<counters, locks, other_requests, other_lock>>
                /\ last'.found = fn_requests
           /\ last'.op = "other_wrapper" =>
                /\ UNCHANGED <<counters, locks, fn_requests, fn_lock>>
                /\ last'.found = other_requests
           /\ last'.op = "is_allowed" =>
                UNCHANGED <<fn_requests, fn_lock, other_requests, other_lock>>
         ]_vars

\* The second function is called and runs while the first one's limit is
\* used up and the limiter's counters hold requests.
C22_Witness ==
    /\ last.op = "other_wrapper" /\ last.raised = None /\ last.executed = 1
    /\ fn_limit > 0
    /\ Retained(fn_requests, fn_window, now) >= fn_limit
    /\ Retained(last.found, fn_window, now) < fn_limit
    /\ global_requests # EmptyMap

\* func.__name__ (line 190), which the wrapper writes to the log only.
FuncName == "func"

\* The arguments of the exception raised at line 191, all that the error
\* value holds: RuntimeError("Rate limit exceeded").args.
ErrorArgs(raised) ==
    IF raised = RateLimitExceeded THEN {"Rate limit exceeded"} ELSE {}

\* The limiter's only error is the RuntimeError of line 191, raised by the
\* wrapper when, and only when, its retained count is at the limit.
OneErrorOutcome ==
    /\ last.raised \in {None, RateLimitExceeded}
    /\ last.raised # None =>
            /\ last.op = "wrapper"
            /\ Retained(last.found, fn_window, now) >= fn_limit
    /\ (last.op = "wrapper" /\ Retained(last.found, fn_window, now) >= fn_limit)
            => last.raised = RateLimitExceeded

\* C23: the limiter has one error outcome, "rate limit exceeded", produced
\* only by the wrapper when admission fails, and the error value carries the
\* name of the function that was throttled.
C23_ErrorNamesOperation ==
    /\ OneErrorOutcome
    /\ last.raised # None => FuncName \in ErrorArgs(last.raised)

\* The wrapper has raised, and the error value holds the message alone.
C23_AnonymousError ==
    /\ last.op = "wrapper" /\ last.raised = RateLimitExceeded
    /\ ErrorArgs(last.raised) = {"Rate limit exceeded"}

\* ------------------------------------------- the rate-limited update path
\* test_rate_limiting sends 10 updates of one user.
MaxUpdates == 10

\* process_update_with_rate_limit(update): the caller of the limiter asks
\* the admission check with the update's user, processes the update when it
\* is admitted and rejects it as rate-limited otherwise.
process_update_with_rate_limit(user_id) == is_allowed(user_id, None)

\* The updates sent and the updates processed so far.
Sent == burst["u1"].n
Processed == burst["u1"].ok

\* The updates arrive in quick succession: within MaxSpan seconds, on a
\* limiter constructed with its defaults.
NextUpdates ==
    \/ TickDefault
    \/ Sent < MaxUpdates /\ process_update_with_rate_limit("u1")

SpecUpdates == InitDefault /\ [][NextUpdates]_vars

\* C24: of 10 updates of one user processed in quick succession through the
\* rate-limited path not all are processed: at least one is rejected.
C24_SomeUpdateRejected == Sent = MaxUpdates => Processed < MaxUpdates

\* All 10 updates of the user have been processed.
C24_AllProcessed == Sent = MaxUpdates /\ Processed = MaxUpdates /\ last.allowed

\* ------------------------------- threads on the limiter and a wrapper
\* Threads calling is_allowed and the decorated function while the clock
\* runs.
NextBusy ==
    \/ TickConc
    \/ \E t \in Threads, user_id \in ThreadUserArgs, ip_address \in IpArgs :
            Call(t, user_id, ip_address)
    \/ \E t \in Threads : GlobalEnter(t)
    \/ \E t \in Threads : GlobalCommit(t)
    \/ \E t \in Threads : UserEnter(t)
    \/ \E t \in Threads : UserCommit(t)
    \/ \E t \in Threads : IpEnter(t)
    \/ \E t \in Threads : IpCommit(t)
    \/ \E t \in Threads : Return(t)
    \/ \E t \in Threads, args \in Args : WrapperCall(t, args)
    \/ \E t \in Threads : WrapperEnter(t)
    \/ \E t \in Threads : WrapperCommit(t)
    \/ \E t \in Threads : WrapperFunc(t)

SpecBusy == InitNarrow /\ [][NextBusy]_vars

\* The requests a map physically stores, expired buckets included, are no
\* more than limit, and so are its buckets.
WithinLimit(request_dict, limit) ==
    /\ Sum(request_dict) <= limit
    /\ Cardinality(DOMAIN request_dict) <= limit

\* C25: in every state, whatever the interleaving of the threads and the
\* clock, the counts stored for a scope key (the global map, each user's
\* map, each address's map, the wrapper's map), expired buckets not yet
\* swept included, sum to at most the scope's limit, and the key stores at
\* most limit buckets.
C25_StoredWithinLimit ==
    /\ WithinLimit(global_requests, global_limit)
    /\ \A u \in DOMAIN user_requests : WithinLimit(user_requests[u], user_limit)
    /\ \A a \in DOMAIN ip_requests : WithinLimit(ip_requests[a], ip_limit)
    /\ WithinLimit(fn_requests, fn_limit)

\* The global map is full and one of its buckets has expired and is not yet
\* swept, a user's map is full of expired buckets, and a thread is inside
\* the wrapper whose map is full.
C25_Witness ==
    /\ Sum(global_requests) = global_limit
    /\ \E ts \in DOMAIN global_requests : now - ts > global_window
    /\ \E u \in DOMAIN user_requests :
            /\ Sum(user_requests[u]) = user_limit
            /\ \A ts \in DOMAIN user_requests[u] : now - ts > user_window
    /\ Sum(fn_requests) = fn_limit
    /\ \E t \in Threads : At(t, "f_func")

\* ------------------------------------------------- delayed callers
\* A thread that read the clock at line 96 (current_time) and was held up
\* until the clock stood at now, when it ran lines 99-157 alone. The
\* observer notes each scope's admission at the time it was decided, now.
Noted(admitted) ==
    [k \in ScopeKeys |->
        IF k \in admitted THEN [decided[k] EXCEPT ![now] = @ + 1] ELSE decided[k]]

delayed_is_allowed(user_id, ip_address, current_time) ==
    /\ Admission(user_id, ip_address, current_time)
    /\ decided' = Noted({k \in ScopeKeys :
                            \/ k = "global" /\ last'.g = "admit"
                            \/ k = user_id /\ last'.u = "admit"
                            \/ k = ip_address /\ last'.i = "admit"})
    /\ UNCHANGED advice

\* The attempts recorded for the keys of a delayed call stay within
\* MaxAttempts.
HasRoomAt(user_id, ip_address, current_time) ==
    /\ Room(burst["global"],
            CounterEmpty(global_requests, global_window, current_time))
    /\ user_id # None =>
            Room(burst[user_id],
                 CounterEmpty(Stored(user_requests, user_id), user_window, current_time))
    /\ ip_address # None =>
            Room(burst[ip_address],
                 CounterEmpty(Stored(ip_requests, ip_address), ip_window, current_time))

NextDelay ==
    \/ Tick
    \/ \E user_id \in ThreadUserArgs, ip_address \in IpArgs, current_time \in Times :
            /\ current_time <= now
            /\ HasRoomAt(user_id, ip_address, current_time)
            /\ delayed_is_allowed(user_id, ip_address, current_time)

SpecDelay == InitNarrow /\ [][NextDelay]_vars

\* The admissions of key k decided while the clock stood in from..to.
DecidedWithin(k, from, to) ==
    SumOver(decided[k], {t \in Times : from <= t /\ t <= to})

\* C26: is_allowed reads the clock once, before any lock, and uses the value
\* for the sweep and the bucket of all three scopes; and however long a
\* thread is held up between reading the clock and taking a scope's lock,
\* the admissions of one key decided within any real-time interval of the
\* length of the window are no more than the scope's limit.
C26_RealTimeWindow ==
    \A k \in ScopeKeys : \A from \in Times :
        DecidedWithin(k, from, from + WindowOf(k)) <= LimitOf(k)

\* More admissions of one key than its limit were decided at one and the
\* same clock value.
C26_TooManyAtOnce ==
    \E k \in ScopeKeys : decided[k][now] > LimitOf(k)

\* ---------------------------------------------------- deny, wait, retry
\* The caller of main(), lines 256-264: a denied call, the wait asked for
\* it, and the same call made again. advice follows the last denied call:
\* denied at t, advised to wait w, retried at the time at with the outcome
\* allowed; any other call made in between ends the observation.
Followed(user_id, ip_address) ==
    advice.user_id = user_id /\ advice.ip_address = ip_address

observed_is_allowed(user_id, ip_address) ==
    /\ Admission(user_id, ip_address, now)
    /\ advice' =
        IF advice.stage = "advised" /\ Followed(user_id, ip_address)
        THEN [advice EXCEPT !.stage = "retried", !.at = now,
                            !.allowed = last'.allowed]
        ELSE IF ~last'.allowed
        THEN [NoAdvice EXCEPT !.stage = "denied", !.t = now,
                              !.user_id = user_id, !.ip_address = ip_address]
        ELSE NoAdvice
    /\ UNCHANGED decided

observed_get_wait_time(user_id, ip_address) ==
    /\ advice.stage = "denied" /\ Followed(user_id, ip_address)
    /\ WaitQuery(user_id, ip_address)
    /\ advice' = [advice EXCEPT !.stage = "advised", !.w = last'.wait]
    /\ UNCHANGED decided

NextRetry ==
    \/ Tick
    \/ \E user_id \in UserArgs, ip_address \in IpArgs :
            HasRoom(user_id, ip_address) /\ observed_is_allowed(user_id, ip_address)
    \/ \E user_id \in UserArgs, ip_address \in IpArgs :
            observed_get_wait_time(user_id, ip_address)

SpecRetry == Init /\ [][NextRetry]_vars

\* The scopes the followed call consults can admit at all.
PositiveLimits ==
    \A k \in {"global", advice.user_id, advice.ip_address} \ {None} : LimitOf(k) > 0

\* A call denied at t and advised to wait w, with no call in between, is
\* admitted when retried at any time later than t + w, the limits of the
\* scopes it consults being positive.
RetryAfterAdvisedTime ==
    (advice.stage = "retried" /\ advice.at > advice.t + advice.w /\ PositiveLimits)
        => advice.allowed

\* C28: the advised wait is sufficient. A call denied at t for which
\* get_wait_time then returned w, with no other call in between, is admitted
\* when it is made again at t + w.
C28_RetryAtAdvisedTime ==
    (advice.stage = "retried" /\ advice.at = advice.t + advice.w) => advice.allowed

\* With positive limits, a call denied at t and advised to wait a window was
\* made again at t + w and denied: the bucket recorded at t has the age
\* window and still counts.
C28_DeniedAtAdvisedTime ==
    /\ advice.stage = "retried" /\ PositiveLimits
    /\ advice.w > 0 /\ advice.at = advice.t + advice.w
    /\ ~advice.allowed
    /\ last.op = "is_allowed" /\ ~last.allowed

\* ------------------------------- the decorated function's own behaviour
\* func (line 196) may return, raise an exception of its own, or call the
\* decorated function again from its body, up to MaxDepth calls deep.
MaxDepth == 1
FuncError == "ValueError"

\* func calls its own wrapper: line 177 of the inner call, made by the
\* thread that is running func.
WrapperReenter(t) ==
    /\ At(t, "f_func")
    /\ frame[t].depth < MaxDepth
    /\ \/ fn_burst.n + InWrapper < fn_limit + MaxExtra
       \/ CounterEmpty(fn_requests, fn_window, now)
    /\ frame' = [frame EXCEPT ![t] =
            [frame[t] EXCEPT !.pc = "f_enter", !.current_time = now,
                             !.depth = frame[t].depth + 1]]
    /\ UNCHANGED <<config, history, decorated, counters, locks, now, last, prev, burst>>

\* The wrapper has no handler around line 196: requests stays as line 194
\* left it when func raises.
RolledBack(requests, current_time) ==
    IF current_time \in DOMAIN requests
    THEN IF requests[current_time] > 1
         THEN [requests EXCEPT ![current_time] = @ - 1]
         ELSE [ts \in DOMAIN requests \ {current_time} |-> requests[ts]]
    ELSE requests
AfterFailure(requests, current_time) == requests

\* line 196: func raises, and the exception leaves the wrapper (and every
\* enclosing call of it) as it is. The ended call is noted with the
\* arguments func was given.
WrapperFuncRaises(t) ==
    /\ At(t, "f_func")
    /\ frame' = [frame EXCEPT ![t] =
            [Raising(frame[t], FuncError) EXCEPT !.args = frame[t].args]]
    /\ fn_requests' = AfterFailure(fn_requests, frame[t].current_time)
    /\ UNCHANGED <<config, history, counters, locks, now, last, prev, burst,
                   fn_limit, fn_window, fn_lock, fn_burst, other_requests, other_lock>>

InitNested ==
    /\ Narrow
    /\ Constructed
    /\ \E th \in Limits \X Windows : Decorated(th[1], th[2])

NextNested ==
    \/ TickConc
    \/ \E t \in Threads, args \in Args : WrapperCall(t, args)
    \/ \E t \in Threads : WrapperEnter(t)
    \/ \E t \in Threads : WrapperCommit(t)
    \/ \E t \in Threads : WrapperFunc(t)
    \/ \E t \in Threads : WrapperFuncRaises(t)
    \/ \E t \in Threads : WrapperReenter(t)
    \/ \E t \in Threads : Return(t)

\* A thread running func returns from it or raises, unless it calls again.
FairNested ==
    /\ Fairness
    /\ \A t \in Threads : WF_vars(WrapperFunc(t) \/ WrapperFuncRaises(t))

SpecNested == InitNested /\ [][NextNested]_vars /\ FairNested

\* C31: the wrapper's lock is held for the sweep, the test and the increment
\* only: a thread holds it exactly while it is between the test and the
\* increment, never while it runs func, and a thread about to take the lock
\* does not hold it. So func can run in several threads at once, and a call
\* func makes of its own wrapper takes the lock and leaves the with-block
\* (no deadlock on the wrapper's lock).
C31_LockFreeWhileFuncRuns ==
    /\ [](\A t \in Threads :
            /\ fn_lock = t <=> At(t, "f_commit")
            /\ At(t, "f_func") => fn_lock # t
            /\ At(t, "f_enter") => fn_lock # t)
    /\ \A t \in Threads :
            (At(t, "f_enter") /\ frame[t].depth > 0) ~> ~At(t, "f_enter")

\* Two threads run func at once, one of them in a call func made of its
\* own wrapper, and the lock is free.
C31_Witness ==
    \E t1, t2 \in Threads :
        /\ t1 # t2
        /\ At(t1, "f_func") /\ frame[t1].depth > 0
        /\ At(t2, "f_func")
        /\ fn_lock = Unlocked

\* How a call of the decorated function can end.
Outcomes == {None, RateLimitExceeded, FuncError}

\* C32: the increment is made before func runs and is not undone when func
\* raises. The step that takes a thread to func stores one request more at
\* the thread's clock reading; the step in which func raises leaves the
\* wrapper's map and the count of admitted calls as they are and ends the
\* call in func's own exception, which is not the rate-limit error.
C32_FailureConsumesQuota ==
    /\ [](/\ FuncError # RateLimitExceeded
          /\ \A t \in Threads : frame[t].raised \in Outcomes)
    /\ [][\A t \in Threads :
            /\ (At(t, "f_commit") /\ frame'[t].pc = "f_func") =>
                    fn_requests' = Increment(fn_requests, frame[t].current_time)
            /\ (At(t, "f_func") /\ frame'[t].pc = "done"
                    /\ frame'[t].raised # None) =>
                    /\ frame'[t].raised = FuncError
                    /\ frame'[t].result = None
                    /\ fn_requests' = fn_requests
                    /\ fn_burst' = fn_burst
         ]_vars

\* func has raised in a call the wrapper admitted: the request is still
\* counted, and the wrapper's limit is used up by it.
C32_Witness ==
    \E t \in Threads :
        /\ At(t, "done") /\ frame[t].raised = FuncError
        /\ fn_limit > 0
        /\ FnRetained(fn_requests) >= fn_limit
        /\ fn_burst.ok = fn_limit
        /\ \A t2 \in Threads : t2 # t => At(t2, "idle")

====
